---- MODULE Spec2Model ----
(***************************************************************************)
(* Model of the PNG chunk codec: src/src/chunk_type.rs (ChunkType) and     *)
(* src/src/chunk.rs (Chunk).                                               *)
(*                                                                         *)
(* Conventions                                                             *)
(*   - a byte (u8) is a number in 0..255;                                  *)
(*   - a &str is the sequence of its Unicode code points; its in-memory    *)
(*     form, which s.len() and s.bytes() look at, is its UTF-8 encoding;   *)
(*   - Option<T> is a sequence of length 0 (None) or 1 (Some);             *)
(*   - the outcome of a call is a record [tag, val], tag being "Ok",       *)
(*     "Err" or "Panic";                                                   *)
(*   - a u32 checksum is kept as its 4 big-endian bytes, since the values  *)
(*     exceed the integers the model checker computes with.                *)
(***************************************************************************)
EXTENDS Integers, Sequences, FiniteSets

VARIABLES op, ctor, arg, ct, chunk, ret

vars == <<op, ctor, arg, ct, chunk, ret>>

----------------------------------------------------------------------------
(* Bounds and input samples *)

MaxStrLen == 5

MaxDataLen == 2

\* bytes handed to try_from: the edges of 'A'..'Z' and 'a'..'z', a digit, a non-ASCII byte
SampleBytes == {49, 64, 65, 90, 91, 96, 97, 122, 123, 255}

\* characters of the tags handed to from_str: R u s S t 1, and a 2-, 3- and 4-byte character
SampleChars == {82, 117, 115, 83, 116, 49, 233, 8364, 128512}

\* payload bytes
SampleData == {0, 65, 255}

\* type tags the chunk operations are given: "RuSt", "Rust", "Ru1t"
SampleTags == {<<82, 117, 83, 116>>, <<82, 117, 115, 116>>, <<82, 117, 49, 116>>}

SeqsUpTo(S, n) == UNION {[1..k -> S] : k \in 0..n}

----------------------------------------------------------------------------
(* Outcomes *)

Ok(v) == [tag |-> "Ok", val |-> v]

Err(e) == [tag |-> "Err", val |-> e]

Panic(m) == [tag |-> "Panic", val |-> m]

Nothing == [tag |-> "None", val |-> <<>>]

----------------------------------------------------------------------------
(* Standard-library behaviour the code relies on *)

is_ascii_uppercase(b) == b >= 65 /\ b <= 90

is_ascii_lowercase(b) == b >= 97 /\ b <= 122

is_ascii_alphabetic(b) == is_ascii_uppercase(b) \/ is_ascii_lowercase(b)

\* UTF-8 encoding of one code point
utf8(c) ==
    IF c < 128 THEN <<c>>
    ELSE IF c < 2048 THEN <<192 + (c \div 64), 128 + (c % 64)>>
    ELSE IF c < 65536 THEN
        <<224 + (c \div 4096), 128 + ((c \div 64) % 64), 128 + (c % 64)>>
    ELSE <<240 + (c \div 262144), 128 + ((c \div 4096) % 64),
           128 + ((c \div 64) % 64), 128 + (c % 64)>>

RECURSIVE str_bytes(_)
\* s.bytes(): the bytes of the UTF-8 encoding of s, in order
str_bytes(s) == IF s = <<>> THEN <<>> ELSE utf8(Head(s)) \o str_bytes(Tail(s))

\* s.len(): the length of s in bytes
str_len(s) == Len(str_bytes(s))

\* the i-th call of next() on a fresh iterator over bs
iter_next(bs, i) == IF i <= Len(bs) THEN <<bs[i]>> ELSE <<>>

RECURSIVE u8_display(_)
\* a u8 written with the {} format: its decimal digits, as characters
u8_display(n) ==
    IF n < 10 THEN <<48 + n>> ELSE u8_display(n \div 10) \o <<48 + (n % 10)>>

----------------------------------------------------------------------------
(* ChunkType *)

ChunkType(a, p, r, s) == [ancillary |-> a, private |-> p, reserved |-> r, safe |-> s]

bytes(self) == <<self.ancillary, self.private, self.reserved, self.safe>>

is_valid(self) == \A i \in 1..4 : is_ascii_alphabetic(bytes(self)[i])

is_critical(self) == is_ascii_uppercase(self.ancillary)

is_public(self) == is_ascii_uppercase(self.private)

is_reserved_bit_valid(self) == is_ascii_uppercase(self.reserved)

\* is_safe_to_copy with the case test of the other three predicates
is_safe_to_copy_upper(self) == is_ascii_uppercase(self.safe)

is_safe_to_copy(self) == is_ascii_lowercase(self.safe)

\* try_from as it would be if it validated the bytes
try_from_checked(b) ==
    IF \A i \in 1..4 : is_ascii_alphabetic(b[i])
    THEN Ok(ChunkType(b[1], b[2], b[3], b[4]))
    ELSE Err("invalid chunk type")

try_from(b) == Ok(ChunkType(b[1], b[2], b[3], b[4]))

LengthError == "str length does not match chunk type parameters"

\* from_str counting characters instead of bytes
from_str_chars(s) ==
    IF Len(s) # 4 THEN Err(LengthError)
    ELSE LET it == str_bytes(s)
         IN  Ok(ChunkType(it[1], it[2], it[3], it[4]))

\* from_str rejecting only input that is too long
from_str_atmost(s) ==
    IF str_len(s) > 4 THEN Err(LengthError)
    ELSE LET it == str_bytes(s)
             n1 == iter_next(it, 1)
             n2 == iter_next(it, 2)
             n3 == iter_next(it, 3)
             n4 == iter_next(it, 4)
         IN  IF n1 = <<>> \/ n2 = <<>> \/ n3 = <<>> \/ n4 = <<>>
             THEN Panic("called Option::unwrap() on a None value")
             ELSE Ok(ChunkType(n1[1], n2[1], n3[1], n4[1]))

from_str(s) ==
    IF str_len(s) # 4 THEN Err(LengthError)
    ELSE LET it == str_bytes(s)
             n1 == iter_next(it, 1)
             n2 == iter_next(it, 2)
             n3 == iter_next(it, 3)
             n4 == iter_next(it, 4)
         IN  IF n1 = <<>> \/ n2 = <<>> \/ n3 = <<>> \/ n4 = <<>>
             THEN Panic("called Option::unwrap() on a None value")
             ELSE Ok(ChunkType(n1[1], n2[1], n3[1], n4[1]))

\* Display: the four u8 fields written with the {} format, one after the other
to_string(self) ==
    u8_display(self.ancillary) \o u8_display(self.private)
        \o u8_display(self.reserved) \o u8_display(self.safe)

----------------------------------------------------------------------------
(* CRC-32/ISO-HDLC (reflected polynomial 0xEDB88320), on 4 big-endian bytes *)

RECURSIVE bxor(_, _)
\* bitwise exclusive or of two naturals
bxor(a, b) ==
    IF a = 0 THEN b
    ELSE IF b = 0 THEN a
    ELSE (((a % 2) + (b % 2)) % 2) + (2 * bxor(a \div 2, b \div 2))

xor32(x, y) == <<bxor(x[1], y[1]), bxor(x[2], y[2]), bxor(x[3], y[3]), bxor(x[4], y[4])>>

shr1(w) ==
    <<w[1] \div 2,
      (w[1] % 2) * 128 + (w[2] \div 2),
      (w[2] % 2) * 128 + (w[3] \div 2),
      (w[3] % 2) * 128 + (w[4] \div 2)>>

CrcPoly == <<237, 184, 131, 32>>

AllOnes == <<255, 255, 255, 255>>

RECURSIVE crc_bits(_, _)
crc_bits(w, k) ==
    IF k = 0 THEN w
    ELSE IF w[4] % 2 = 1 THEN crc_bits(xor32(shr1(w), CrcPoly), k - 1)
    ELSE crc_bits(shr1(w), k - 1)

RECURSIVE crc_update(_, _)
crc_update(w, bs) ==
    IF bs = <<>> THEN w
    ELSE crc_update(crc_bits(<<w[1], w[2], w[3], bxor(w[4], Head(bs))>>, 8), Tail(bs))

crc32(bs) == xor32(crc_update(AllOnes, bs), AllOnes)

\* a u32 below 2^31 as its 4 big-endian bytes
to_be_bytes(n) ==
    <<(n \div 16777216) % 256, (n \div 65536) % 256, (n \div 256) % 256, n % 256>>

from_be_bytes(b) == ((b[1] * 256 + b[2]) * 256 + b[3]) * 256 + b[4]

----------------------------------------------------------------------------
(* Chunk *)

MkChunk(len, t, d, c) == [length |-> len, chunk_type |-> t, data |-> d, crc |-> c]

NotImplemented == "not yet implemented: implement this"

\* todo!() panics on every call
Chunk_new(t, d) == Panic(NotImplemented)

length(self) == self.length

crc(self) == self.crc

as_bytes(self) == Panic(NotImplemented)

\* the inverse of as_bytes that the format description asks for
parse(buf) ==
    IF Len(buf) < 12 THEN Err("TruncatedInput")
    ELSE LET n == from_be_bytes(SubSeq(buf, 1, 4))
         IN  IF Len(buf) < 12 + n THEN Err("TruncatedInput")
             ELSE LET tb == SubSeq(buf, 5, 8)
                      d == SubSeq(buf, 9, 8 + n)
                      c == SubSeq(buf, 9 + n, 12 + n)
                  IN  IF crc32(tb \o d) # c THEN Err("ChecksumMismatch")
                      ELSE Ok(MkChunk(n, ChunkType(tb[1], tb[2], tb[3], tb[4]), d, c))

\* parse(as_bytes(new(t, d))), a panic or an error ending the chain
round_trip(t, d) ==
    LET c == Chunk_new(t, d)
    IN  IF c.tag # "Ok" THEN c
        ELSE LET b == as_bytes(c.val)
             IN  IF b.tag # "Ok" THEN b ELSE parse(b.val)

----------------------------------------------------------------------------
(* State machine: one value is built from the start state, queried, and    *)
(* dropped again.  arg is the input of the call that built it.             *)

Init ==
    /\ op = "start"
    /\ ctor = "none"
    /\ arg = <<>>
    /\ ct = <<>>
    /\ chunk = <<>>
    /\ ret = Nothing

Construct(name, input, r) ==
    /\ op' = name
    /\ ctor' = name
    /\ arg' = input
    /\ ret' = r
    /\ ct' = IF r.tag = "Ok" THEN <<r.val>> ELSE <<>>
    /\ chunk' = <<>>

Query(name, r) ==
    /\ ct # <<>>
    /\ op' = name
    /\ ret' = r
    /\ UNCHANGED <<ctor, arg, ct, chunk>>

TryFrom ==
    /\ op = "start"
    /\ \E b \in [1..4 -> SampleBytes] : Construct("try_from", b, try_from(b))

FromStr ==
    /\ op = "start"
    /\ \E s \in SeqsUpTo(SampleChars, MaxStrLen) : Construct("from_str", s, from_str(s))

Bytes == Query("bytes", Ok(bytes(ct[1])))

IsValid == Query("is_valid", Ok(is_valid(ct[1])))

IsCritical == Query("is_critical", Ok(is_critical(ct[1])))

IsPublic == Query("is_public", Ok(is_public(ct[1])))

IsReservedBitValid == Query("is_reserved_bit_valid", Ok(is_reserved_bit_valid(ct[1])))

IsSafeToCopy == Query("is_safe_to_copy", Ok(is_safe_to_copy(ct[1])))

Display == Query("to_string", Ok(to_string(ct[1])))

\* a call on a type tag t and a payload d; arg keeps t followed by d
ChunkCall(name, t, d, r, c) ==
    /\ op' = name
    /\ ctor' = name
    /\ arg' = t \o d
    /\ ret' = r
    /\ ct' = <<>>
    /\ chunk' = c

ChunkNew ==
    /\ op = "start"
    /\ \E t \in SampleTags, d \in SeqsUpTo(SampleData, MaxDataLen) :
        LET r == Chunk_new(try_from(t).val, d)
        IN  ChunkCall("new", t, d, r, IF r.tag = "Ok" THEN <<r.val>> ELSE <<>>)

\* a Chunk written as a struct literal inside the module, fields as documented
ChunkLiteral ==
    /\ op = "start"
    /\ \E t \in SampleTags, d \in SeqsUpTo(SampleData, MaxDataLen) :
        LET c == MkChunk(Len(d), try_from(t).val, d, crc32(t \o d))
        IN  ChunkCall("literal", t, d, Ok(c), <<c>>)

ChunkQuery(name, r) ==
    /\ chunk # <<>>
    /\ op' = name
    /\ ret' = r
    /\ UNCHANGED <<ctor, arg, ct, chunk>>

Length == ChunkQuery("length", Ok(length(chunk[1])))

Crc == ChunkQuery("crc", Ok(crc(chunk[1])))

AsBytes == ChunkQuery("as_bytes", as_bytes(chunk[1]))

RoundTrip ==
    /\ op = "start"
    /\ \E t \in SampleTags, d \in SeqsUpTo(SampleData, MaxDataLen) :
        ChunkCall("round_trip", t, d, round_trip(try_from(t).val, d), <<>>)

\* the value goes out of scope
Return ==
    /\ op # "start"
    /\ op' = "start"
    /\ ctor' = "none"
    /\ arg' = <<>>
    /\ ct' = <<>>
    /\ chunk' = <<>>
    /\ ret' = Nothing

Next ==
    \/ TryFrom
    \/ FromStr
    \/ Bytes
    \/ IsValid
    \/ IsCritical
    \/ IsPublic
    \/ IsReservedBitValid
    \/ IsSafeToCopy
    \/ Display
    \/ ChunkNew
    \/ ChunkLiteral
    \/ Length
    \/ Crc
    \/ AsBytes
    \/ RoundTrip
    \/ Return

Spec == Init /\ [][Next]_vars

----------------------------------------------------------------------------
(* Properties *)

Upper == 65..90

Lower == 97..122

Letters == Upper \cup Lower

\* number of bytes a character takes when encoded
EncodedWidth(c) == IF c < 128 THEN 1 ELSE IF c < 2048 THEN 2 ELSE IF c < 65536 THEN 3 ELSE 4

RECURSIVE EncodedLen(_)
EncodedLen(s) == IF s = <<>> THEN 0 ELSE EncodedWidth(Head(s)) + EncodedLen(Tail(s))

\* the 4 bytes the held ChunkType was built from
InputBytes == IF ctor = "try_from" THEN arg ELSE str_bytes(arg)

\* C1: is_valid() is true iff all 4 bytes are ASCII letters and the third
\* (reserved) byte is uppercase.
C1_IsValidIffLettersAndReservedUpper ==
    op = "is_valid" =>
        ret.val = ((\A i \in 1..4 : InputBytes[i] \in Letters) /\ InputBytes[3] \in Upper)

\* C2: rendering the ChunkType built by from_str from a 4-character ASCII tag
\* gives back the tag.
C2_TextRoundTrip ==
    (op = "to_string" /\ ctor = "from_str" /\ Len(arg) = 4 /\ \A i \in 1..4 : arg[i] < 128)
        => ret.val = arg

C4_FromStrRejectsNonAlphabetic ==
    (op = "from_str" /\ Len(arg) = 4 /\ \E i \in 1..4 : arg[i] \notin Letters)
        => ret.tag = "Err"

\* C5: new(chunk_type, data) succeeds, with length() = data.len() and crc()
\* the CRC-32 of the type bytes followed by the data.
C5_NewSucceeds ==
    op = "new" =>
        /\ ret.tag = "Ok"
        /\ length(ret.val) = Len(arg) - 4
        /\ crc(ret.val) = crc32(arg)

\* C6: as_bytes() is the big-endian length, the type bytes, the data and the
\* big-endian crc, 12 + data.len() bytes in all.
C6_AsBytesLayout ==
    op = "as_bytes" =>
        /\ ret.tag = "Ok"
        /\ Len(ret.val) = 12 + Len(chunk[1].data)
        /\ ret.val = to_be_bytes(chunk[1].length) \o bytes(chunk[1].chunk_type)
                        \o chunk[1].data \o chunk[1].crc

\* C7: for a valid type and any data, parsing as_bytes(new(t, d)) succeeds
\* and gives a Chunk with the same type, data and crc.
C7_ByteRoundTrip ==
    (op = "round_trip" /\ (\A i \in 1..4 : arg[i] \in Letters) /\ arg[3] \in Upper) =>
        /\ ret.tag = "Ok"
        /\ bytes(ret.val.chunk_type) = SubSeq(arg, 1, 4)
        /\ ret.val.data = SubSeq(arg, 5, Len(arg))
        /\ ret.val.crc = crc32(arg)

\* C8: is_critical, is_public and is_reserved_bit_valid hold iff byte 1, 2, 3
\* is an uppercase ASCII letter, is_safe_to_copy iff byte 4 is a lowercase
\* one; each is false on a non-alphabetic byte.
C8_FlagPredicates ==
    /\ op = "is_critical" => ret.val = (InputBytes[1] \in Upper)
    /\ op = "is_public" => ret.val = (InputBytes[2] \in Upper)
    /\ op = "is_reserved_bit_valid" => ret.val = (InputBytes[3] \in Upper)
    /\ op = "is_safe_to_copy" => ret.val = (InputBytes[4] \in Lower)
    /\ \A k \in 1..4 :
        (/\ op = <<"is_critical", "is_public", "is_reserved_bit_valid", "is_safe_to_copy">>[k]
         /\ InputBytes[k] \notin Letters) => ret.val = FALSE

C8_Witness == op = "is_safe_to_copy" /\ ctor = "try_from" /\ arg[4] = 49 /\ ret.val = FALSE

\* C9: try_from of any 4 bytes is Ok, and bytes() of the result is those 4
\* bytes in order.
C9_TryFromKeepsBytes ==
    /\ op = "try_from" => (ret.tag = "Ok" /\ bytes(ret.val) = arg)
    /\ (op = "bytes" /\ ctor = "try_from") => ret.val = arg

C9_Witness == op = "bytes" /\ ctor = "try_from" /\ arg = <<49, 255, 64, 123>>

\* C10: from_str never panics; a string of fewer than 4 characters and
\* exactly 4 encoded bytes is accepted, one of 4 characters and more than 4
\* encoded bytes is rejected with the length error.
C10_FromStrNeverPanics ==
    op = "from_str" =>
        /\ ret.tag # "Panic"
        /\ (Len(arg) < 4 /\ EncodedLen(arg) = 4) => ret.tag = "Ok"
        /\ (Len(arg) = 4 /\ EncodedLen(arg) > 4) => ret = Err(LengthError)

C10_Witness == op = "from_str" /\ arg = <<128512>> /\ ret.tag = "Ok"

====
